---- MODULE Spec2Model ----
(***************************************************************************)
(* Hydrogen Impact Atlas: tercile classification of indicator columns and  *)
(* the per-country PDF report (src/Map_v3.py, with the classifiers and     *)
(* label functions of the earlier variants src/Map_v2.py and src/Map.py).  *)
(*                                                                         *)
(* Cells of a column are modelled as integers: a number is itself          *)
(* (1..MaxVal), NaN stands for a missing cell and BadText for a cell       *)
(* holding text that pandas cannot coerce to a number.                     *)
(* Quantiles and bin edges are rationals; they are kept exact by scaling   *)
(* (thirds for the terciles, 1/3000 for the equal-width bins).             *)
(***************************************************************************)
EXTENDS Integers, Sequences, FiniteSets, TLC

\* ------------------------------------------------------------------ bounds
MaxLen == 4      \* longest column handed to the classifier on its own
MaxVal == 4      \* numeric cells of such a column are 1..MaxVal

\* ------------------------------------------------------------ cell values
NaN == -1        \* missing cell / missing category marker of pandas
BadText == -2    \* a cell holding text that is not a number

Numbers == 1..MaxVal
Cells == Numbers \cup {NaN, BadText}

\* the labels out of order
Labels_unordered == <<"Low", "High", "Medium">>

\* labels handed to pd.qcut / pd.cut
Labels == <<"Low", "Medium", "High">>

\* the four categories of the atlas
Categories == {"Low", "Medium", "High", "NoData"}

\* ------------------------------------------------- result of a Python call
Return(v) == [exc |-> "none", val |-> v]
Raise(e) == [exc |-> e, val |-> <<>>]

\* ------------------------------------------------------- pandas primitives
\* pd.to_numeric(series, errors="coerce"): text that is no number becomes NaN
to_numeric(series) ==
    [i \in 1..Len(series) |-> IF series[i] = BadText THEN NaN ELSE series[i]]

\* Series.dropna()
dropna(s) == SelectSeq(s, LAMBDA x : x # NaN)

\* Series.nunique(dropna=True)
nunique(s) == Cardinality({s[i] : i \in 1..Len(s)} \ {NaN})

\* the non-null values in ascending order (what Series.quantile works on)
sort_values(s) == SortSeq(dropna(s), LAMBDA a, b : a < b)

\* a quantile without interpolation: the value at or below the position
quantile_lower(v, j) ==
    LET n == Len(v)
        p == j * (n - 1)
        k == p \div 3
    IN  3 * v[k + 1]

\* Series.quantile(j/3) with linear interpolation, in thirds:
\* position p = (j/3)*(n-1) = k + r/3, value v[k] + (r/3)*(v[k+1]-v[k])
quantile(v, j) ==
    LET n == Len(v)
        p == j * (n - 1)
        k == p \div 3
        r == p % 3
    IN  IF r = 0 THEN 3 * v[k + 1]
        ELSE 3 * v[k + 1] + r * (v[k + 2] - v[k + 1])

\* bins closed on the left: a value on an edge goes to the bin above it
bins_to_cuts_left_closed(x, scale, bins, include_lowest) ==
    [i \in 1..Len(x) |->
        IF x[i] = NaN THEN "NaN"
        ELSE LET xs == scale * x[i]
                 ids == IF include_lowest /\ xs = bins[1] THEN 1
                        ELSE Cardinality({b \in 1..Len(bins) : bins[b] <= xs})
             IN  IF ids = 0 \/ ids = Len(bins) THEN "NaN" ELSE Labels[ids]]

\* pandas _bins_to_cuts: bins.searchsorted(x, side="left"), the lowest edge
\* included when include_lowest, NaN where x is NaN or falls outside the bins
bins_to_cuts(x, scale, bins, include_lowest) ==
    [i \in 1..Len(x) |->
        IF x[i] = NaN THEN "NaN"
        ELSE LET xs == scale * x[i]
                 ids == IF include_lowest /\ xs = bins[1] THEN 1
                        ELSE Cardinality({b \in 1..Len(bins) : bins[b] < xs})
             IN  IF ids = 0 \/ ids = Len(bins) THEN "NaN" ELSE Labels[ids]]

\* duplicates="raise": the bin edges must be pairwise different
unique_bins(bins) == Cardinality({bins[b] : b \in 1..Len(bins)}) = Len(bins)

\* pd.qcut(s, q=3, labels=[Low, Medium, High]); an all-NaN or empty input
\* gives four NaN edges, which are not unique
qcut(s) ==
    LET v == sort_values(s)
        bins == [j \in 1..4 |-> quantile(v, j - 1)]
    IN  IF Len(v) = 0 THEN Raise("ValueError")
        ELSE IF ~unique_bins(bins) THEN Raise("ValueError")
        ELSE Return(bins_to_cuts(s, 3, bins, TRUE))

\* pd.cut(s, bins=3, labels=[Low, Medium, High]): three equal-width bins over
\* [min, max], the lowest edge moved down by 0.1% of the range; a single
\* distinct value widens the range by 0.1% on both sides, so the value falls
\* in the middle bin
cut(s) ==
    LET v == sort_values(s)
        mn == v[1]
        mx == v[Len(v)]
        w == mx - mn
        bins == <<3000 * mn - 3 * w, 3000 * mn + 1000 * w,
                  3000 * mn + 2000 * w, 3000 * mx>>
    IN  IF Len(s) = 0 THEN Raise("ValueError")
        ELSE IF Len(v) = 0 THEN Raise("ValueError")
        ELSE IF mn = mx
             THEN Return([i \in 1..Len(s) |->
                             IF s[i] = NaN THEN "NaN" ELSE "Medium"])
        ELSE Return(bins_to_cuts(s, 3000, bins, FALSE))

\* try: qcut  except Exception: cut
qcut_or_cut(s) ==
    LET cats == qcut(s)
    IN  IF cats.exc = "none" THEN cats ELSE cut(s)

\* ---------------------------------------------------------- classify_three
\* src/Map_v3.py: the constant branch assigns into the name out, which is
\* never bound; the tercile branch returns the categorical as it is
classify_three(series) ==
    LET s == to_numeric(series)
    IN  IF nunique(s) = 1 THEN Raise("NameError")
        ELSE qcut_or_cut(s)

\* src/Map_v2.py: cats.astype(str) turns a missing category into the text nan
classify_three_v2(series) ==
    LET s == to_numeric(series)
        NoDataAll == [i \in 1..Len(s) |-> "NoData"]
        cats == qcut_or_cut(s)
    IN  IF Len(dropna(s)) = 0 THEN Return(NoDataAll)
        ELSE IF nunique(s) = 1
             THEN Return([i \in 1..Len(s) |->
                             IF s[i] # NaN THEN "Medium" ELSE "NoData"])
        ELSE IF cats.exc # "none" THEN cats
        ELSE Return([i \in 1..Len(s) |->
                        IF cats.val[i] = "NaN" THEN "nan" ELSE cats.val[i]])

\* src/Map.py: series.dropna().astype(float) raises on text; only the
\* non-null positions are cut and the rest is filled with NoData
classify_three_v1(series) ==
    LET s == dropna(series)
        cats == qcut_or_cut(s)
        pos(i) == Cardinality({j \in 1..i : series[j] # NaN})
    IN  IF \E i \in 1..Len(s) : s[i] = BadText THEN Raise("ValueError")
        ELSE IF Len(s) = 0
             THEN Return([i \in 1..Len(series) |-> "NoData"])
        ELSE IF nunique(s) = 1
             THEN Return([i \in 1..Len(series) |->
                             IF series[i] # NaN THEN "Medium" ELSE "NoData"])
        ELSE IF cats.exc # "none" THEN cats
        ELSE Return([i \in 1..Len(series) |->
                        IF series[i] = NaN THEN "NoData"
                        ELSE cats.val[pos(i)]])

\* ------------------------------------------------------- qualitative label
None == "None"

\* src/Map_v3.py: dict.get without default, the NoData entry commented out
category_to_label(cat) ==
    CASE cat = "Low" -> "Low"
      [] cat = "Medium" -> "Moderate"
      [] cat = "High" -> "High"
      [] OTHER -> None

\* src/Map_v2.py
cat_to_label(cat) ==
    CASE cat = "Low" -> "Low"
      [] cat = "Medium" -> "Moderate"
      [] cat = "High" -> "High"
      [] cat = "NoData" -> "No data"
      [] OTHER -> "No data"

\* src/Map.py
category_to_label_v1(cat) ==
    CASE cat = "Low" -> "Low"
      [] cat = "Medium" -> "Moderate"
      [] cat = "High" -> "High"
      [] cat = "NoData" -> "No data"
      [] OTHER -> "No data"

\* ------------------------------------------------------------ text wrapping
\* A text is the sequence of its whitespace-separated words (str.split) and a
\* word is its length; a line is the sequence of the words joined by blanks.
line_len(cur) ==
    LET RECURSIVE total(_)
        total(k) == IF k = 0 THEN 0 ELSE cur[k] + total(k - 1)
    IN  IF Len(cur) = 0 THEN 0 ELSE total(Len(cur)) + (Len(cur) - 1)

RECURSIVE wrap_words(_, _, _, _)
wrap_words(words, cur, lines, max_chars) ==
    IF Len(words) = 0
    THEN IF Len(cur) > 0 THEN Append(lines, cur) ELSE lines
    ELSE LET w == Head(words)
         IN  IF line_len(cur) + (IF Len(cur) > 0 THEN 1 ELSE 0) + w <= max_chars
             THEN wrap_words(Tail(words), Append(cur, w), lines, max_chars)
             ELSE wrap_words(Tail(words), <<w>>, Append(lines, cur), max_chars)

\* src/Map_v3.py split_text_to_lines on the word lengths of a text: the lines
\* as sequences of word lengths
split_lengths_to_lines(text, max_chars) ==
    IF Len(text) = 0 THEN <<>> ELSE wrap_words(text, <<>>, <<>>, max_chars)

\* ------------------------------------------------- text wrapping, by character
MaxText == 7     \* longest text handed to the wrapper, in characters
MaxChars == 3    \* widest line asked for

\* a string is the sequence of its characters; the blank is the whitespace
Blank == " "
Chars == {"a", "b", Blank}

\* None where a text is expected, kept apart from every string
NoText == <<"None">>

Strings == UNION { [1..n -> Chars] : n \in 0..MaxText }
Texts == Strings \cup {NoText}

\* str.strip
RECURSIVE strip_chars(_)
strip_chars(t) ==
    IF Len(t) = 0 THEN t
    ELSE IF Head(t) = Blank THEN strip_chars(Tail(t))
    ELSE IF t[Len(t)] = Blank THEN strip_chars(SubSeq(t, 1, Len(t) - 1))
    ELSE t

\* str.split(): the maximal runs of characters other than whitespace
RECURSIVE split_from(_, _, _)
split_from(t, word, words) ==
    IF Len(t) = 0
    THEN IF Len(word) > 0 THEN Append(words, word) ELSE words
    ELSE IF Head(t) = Blank
    THEN split_from(Tail(t), <<>>,
                    IF Len(word) > 0 THEN Append(words, word) ELSE words)
    ELSE split_from(Tail(t), Append(word, Head(t)), words)

split(t) == split_from(t, <<>>, <<>>)

\* a test that counts the blank before the word even on an empty line
fits_after_blank(cur, w, width) == Len(cur) + 1 + Len(w) <= width

\* line 219: len(cur) + (1 if cur else 0) + len(w) <= max_chars
fits(cur, w, width) ==
    Len(cur) + (IF Len(cur) > 0 THEN 1 ELSE 0) + Len(w) <= width

\* a join that forgets the blank between the line and the word
join_unspaced(cur, w) == strip_chars(cur \o w)

\* line 220: f"{cur} {w}".strip()
join(cur, w) == strip_chars(cur \o <<Blank>> \o w)

\* lines 217-225: the loop over the words and the last line
RECURSIVE wrap(_, _, _, _)
wrap(words, cur, out, width) ==
    IF Len(words) = 0
    THEN IF Len(cur) > 0 THEN Append(out, cur) ELSE out
    ELSE IF fits(cur, Head(words), width)
    THEN wrap(Tail(words), join(cur, Head(words)), out, width)
    ELSE wrap(Tail(words), Head(words), Append(out, cur), width)

\* src/Map_v3.py split_text_to_lines: not text covers None and ""
split_text_to_lines(t, width) ==
    IF t = NoText \/ Len(t) = 0 THEN <<>>
    ELSE wrap(split(t), <<>>, <<>>, width)

\* src/Map_v2.py lines 187-194: len(current) + 1 + len(w) on every word
RECURSIVE wrap_v2(_, _, _, _)
wrap_v2(words, current, out, width) ==
    IF Len(words) = 0
    THEN IF Len(current) > 0 THEN Append(out, current) ELSE out
    ELSE IF Len(current) + 1 + Len(Head(words)) <= width
    THEN wrap_v2(Tail(words),
                 strip_chars(current \o <<Blank>> \o Head(words)), out, width)
    ELSE wrap_v2(Tail(words), Head(words), Append(out, current), width)

\* src/Map_v2.py split_text_to_lines: None has no split
split_text_to_lines_v2(t, width) ==
    IF t = NoText THEN Raise("AttributeError")
    ELSE Return(wrap_v2(split(t), <<>>, <<>>, width))

\* ---------------------------------------------------------- scenario tables
MaxRows == 3     \* most rows of a scenario table
MaxCell == 3     \* numeric cells of a scenario table are 1..MaxCell
MaxInds == 2     \* longest indicator list of a report
LongLines == 39  \* words of the long assumption text
WordLen == 60    \* length of each of its words: one word per wrapped line

\* country codes and names by row position, and a code of no row
Codes == <<"DZA", "BEN", "TCD", "DJI", "EGY">>
Names == <<"Algeria", "Benin", "Chad", "Djibouti", "Egypt">>
AbsentCode == "ZZZ"

\* str.upper on the country codes in use
upper(code) ==
    CASE code = "dza" -> "DZA"
      [] code = "nan" -> "NAN"
      [] OTHER -> code

\* indicator columns of the table, and an indicator that is no column
TableCols == {"X", "Y"}
Inds == {"X", "Y", "Z"}

\* the shapes of column Y: rising numbers, and text in the first row above
\* rising numbers (column X takes every shape, constant and all-missing
\* included)
YColumns(n) ==
    { [r \in 1..n |-> r], [r \in 1..n |-> IF r = 1 THEN BadText ELSE r] }

\* a normalised scenario table: ISO3 upper-cased, Country, two indicators
Tables ==
    UNION { { [ISO3 |-> [r \in 1..n |-> Codes[r]],
               Country |-> [r \in 1..n |-> Names[r]],
               X |-> x, Y |-> y] :
              x \in [1..n -> (1..MaxCell) \cup {NaN}], y \in YColumns(n) } :
            n \in 0..MaxRows }

nrows(df) == Len(df.ISO3)
column(df, ind) == IF ind = "X" THEN df.X ELSE df.Y

\* meta_dict: indicator code -> IndName, Note.  X has a metadata row with a
\* note, Y and Z have none.
EmptyMeta == [ind \in {} |-> [IndName |-> "", Note |-> <<>>]]
Meta == [ind \in {"X"} |-> [IndName |-> "Hydrogen cost", Note |-> <<8, 4>>]]

AssumptionTexts == {<<>>, [k \in 1..LongLines |-> WordLen]}

\* indicator lists of at most MaxInds entries, none named twice
IndLists ==
    { l \in UNION { [1..k -> Inds] : k \in 0..MaxInds } :
        \A j, k \in 1..Len(l) : j # k => l[j] # l[k] }

\* ---------------------------------------------------------- workbook sheets
\* A sheet is its header row and its data rows; a row is the sequence of its
\* cells in header order.  A missing text cell is NA, and str() of it is the
\* text nan.
NA == "<NA>"
notna(cell) == cell # NA
str(cell) == IF cell = NA THEN "nan" ELSE cell

\* a missing note cell (notes are sequences of word lengths)
NoteNA == <<NaN>>

\* str.strip and str.lower on the headers in use
strip(h) ==
    CASE h = " ICODE " -> "ICODE"
      [] h = "indname " -> "indname"
      [] h = " uCode " -> "uCode"
      [] h = " COUNTRY" -> "COUNTRY"
      [] h = " Y " -> "Y"
      [] OTHER -> h

lower(h) ==
    CASE h \in {"iCode", "ICODE"} -> "icode"
      [] h \in {"IndName", "indname"} -> "indname"
      [] h = "Note" -> "note"
      [] h = "Comment" -> "comment"
      [] h \in {"uCode", "UCODE"} -> "ucode"
      [] h \in {"Code", "CODE"} -> "code"
      [] h \in {"ISO3", "Iso3"} -> "iso3"
      [] h \in {"uName", "UNAME"} -> "uname"
      [] h \in {"Country", "COUNTRY"} -> "country"
      [] h = "Name" -> "name"
      [] h = "X" -> "x"
      [] h = "Y" -> "y"
      [] OTHER -> h

\* {c.lower(): c for c in columns}.get(key): of the columns whose lower-cased
\* header is key the last one, else None
lower_get(columns, key) ==
    LET hits == {k \in 1..Len(columns) : lower(columns[k]) = key}
    IN  IF hits = {} THEN None
        ELSE columns[CHOOSE k \in hits : \A j \in hits : j <= k]

\* position of the column named name
col_pos(columns, name) == CHOOSE k \in 1..Len(columns) : columns[k] = name

\* DataFrame.empty: no rows or no columns
empty(sheet) == Len(sheet.columns) = 0 \/ Len(sheet.rows) = 0

\* the sheet pd.DataFrame()
NoSheet == [columns |-> <<>>, rows |-> <<>>]

\* ---------------------------------------------------------- metadata sheet
MaxMetaRows == 2   \* most rows of the metadata sheet

\* header rows of the metadata sheet: the three columns, case and blank
\* variants of them, a sheet without notes, one without the code column and
\* one without the name column
MetaHeaders ==
    { <<"iCode", "IndName", "Note">>, <<" ICODE ", "indname ", "Note">>,
      <<"iCode", "IndName">>, <<"Comment", "IndName", "Note">>,
      <<"iCode", "Comment", "Note">> }

\* a metadata row: code, name or nothing, note or nothing
MetaRowsOf(width) ==
    { SubSeq(<<code, name, note>>, 1, width) :
        code \in {"X", "Y"}, name \in {"Hydrogen cost", NA},
        note \in {<<8, 4>>, NoteNA} }

MetaSheets ==
    {NoSheet} \cup
    UNION { { [columns |-> h, rows |-> r] :
                r \in UNION { [1..n -> MetaRowsOf(Len(h))] :
                                n \in 0..MaxMetaRows } } :
            h \in MetaHeaders }

\* lines 394-407: meta_dict built from the metadata sheet; a later row of
\* the same code replaces the earlier one
meta_dict_of(sheet) ==
    LET columns == [k \in 1..Len(sheet.columns) |-> strip(sheet.columns[k])]
        code_col == lower_get(columns, "icode")
        name_col == lower_get(columns, "indname")
        note_col == lower_get(columns, "note")
        code_of(r) == str(r[col_pos(columns, code_col)])
        name_of(r) == r[col_pos(columns, name_col)]
        entry(r) ==
            [IndName |-> IF notna(name_of(r)) THEN str(name_of(r))
                         ELSE code_of(r),
             Note |-> IF note_col # None
                         /\ r[col_pos(columns, note_col)] # NoteNA
                      THEN r[col_pos(columns, note_col)] ELSE <<>>]
        last(code) ==
            CHOOSE k \in 1..Len(sheet.rows) :
                /\ code_of(sheet.rows[k]) = code
                /\ \A j \in 1..Len(sheet.rows) :
                      code_of(sheet.rows[j]) = code => j <= k
    IN  IF empty(sheet) THEN EmptyMeta
        ELSE IF code_col = None \/ name_col = None THEN EmptyMeta
        ELSE [code \in {code_of(sheet.rows[k]) : k \in 1..Len(sheet.rows)} |->
                 entry(sheet.rows[last(code)])]

\* ---------------------------------------------------------- scenario sheet
\* header rows of a scenario sheet of four columns, the first the code and
\* the second the name: case and blank variants of uCode, code, iso3 and of
\* uName, country; a name column the loader does not know; a sheet holding
\* a column ISO3 next to uCode; and a sheet without any code column
RawHeaders ==
    { <<"uCode", "uName", "X", "Y">>, <<" uCode ", " COUNTRY", "X", " Y ">>,
      <<"Code", "Country", "X", "Y">>, <<"Iso3", "Name", "X", "Y">>,
      <<"ISO3", "Country", "X", "Y">>, <<"uCode", "Country", "ISO3", "Y">>,
      <<"Region", "Country", "X", "Y">> }

\* the code cell of row r: upper case; or, in the first row, lower case,
\* missing, or the code of no country of the world layer
RawCodes(kind, r) ==
    IF r > 1 \/ kind = "upper" THEN Codes[r]
    ELSE IF kind = "lower" THEN "dza"
    ELSE IF kind = "foreign" THEN AbsentCode ELSE NA

\* the X cell of row r: rising, constant, or missing in the first row
RawX(kind, r) ==
    IF kind = "constant" THEN 2
    ELSE IF kind = "gap" /\ r = 1 THEN NaN ELSE r

RawSheets ==
    { [columns |-> h,
       rows |-> [r \in 1..n |->
                   <<RawCodes(ck, r), Names[r], RawX(xk, r), r>>]] :
        h \in RawHeaders, n \in 0..MaxRows,
        ck \in {"upper", "lower", "missing", "foreign"},
        xk \in {"rising", "constant", "gap"} }

\* Index.count of a label
count(columns, name) == Cardinality({k \in 1..Len(columns) : columns[k] = name})

\* src/Map_v3.py load_excel, lines 142-165, for one scenario sheet: headers
\* stripped, the code and name columns renamed, the codes upper-cased.  With
\* two columns named ISO3, df["ISO3"] is a DataFrame, which has no .str
load_excel(sheet) ==
    LET stripped == [k \in 1..Len(sheet.columns) |-> strip(sheet.columns[k])]
        low(key) == lower_get(stripped, key)
        code_src == IF low("ucode") # None THEN low("ucode")
                    ELSE IF low("code") # None THEN low("code")
                    ELSE low("iso3")
        name_src == IF low("uname") # None THEN low("uname")
                    ELSE low("country")
        renamed == [k \in 1..Len(stripped) |->
                      IF stripped[k] = code_src THEN "ISO3"
                      ELSE IF stripped[k] = name_src THEN "Country"
                      ELSE stripped[k]]
        iso == col_pos(renamed, "ISO3")
    IN  IF count(renamed, "ISO3") = 0
        THEN Return([columns |-> renamed, rows |-> sheet.rows])
        ELSE IF count(renamed, "ISO3") > 1 THEN Raise("AttributeError")
        ELSE Return([columns |-> renamed,
                     rows |-> [r \in 1..Len(sheet.rows) |->
                                 [sheet.rows[r] EXCEPT
                                    ![iso] = upper(str(@))]]])

\* ------------------------------------------------------------------- state
VARIABLES
    series,              \* column handed to the classifier on its own
    cats,                \* what the classifier returned or raised for it
    cpc,                 \* which classifier ran: "input", "v3", "v2", "v1"
    scenario_df,         \* the table of the selected scenario
    meta_dict,           \* indicator metadata
    assumptions_text,    \* assumption text of the scenario
    caller,              \* "script" (PDF block of the app) or "call"
    requested,           \* the indicator list asked for
    country_code,        \* make_pdf_for_country arguments ...
    selected_indicators,
    class_map,           \* ind -> labels of the whole column
    row,                 \* positions of the rows of the selected country
    y,                   \* vertical cursor on the summary page, in mm
    i,                   \* loop position in selected_indicators
    page,                \* the page being drawn
    pages,               \* pages emitted by showPage, in order
    exc,                 \* exception that left make_pdf_for_country, or "none"
    pc,                  \* "idle", "summary", "details", "saved", "raised",
                         \* "refused"
    again,               \* what classify_three returned the second time
    other,               \* another column classified in between
    raw_df,              \* a scenario sheet as read from the workbook
    df,                  \* the sheet after load_excel, as the app holds it
    meta_df,             \* the metadata sheet as read from the workbook
    indicator_choice,    \* indicator picked for the map
    indicator_title,     \* its display name and note, resolved from meta_dict
    indicator_note,
    st_error,            \* message of st.error, or "" when none was shown
    map_df,              \* the world layer joined with the scenario table
    map_built,           \* the choropleth of the scenario was drawn
    app_exc,             \* exception that ended the app script, or "none"
    text,                \* text handed to split_text_to_lines, as characters
    max_chars,           \* its line width
    lines,               \* the lines it returned
    tpc,                 \* which wrapper ran: "input", "v3", "v2", "off"
    apc                  \* position of the app script: "load", "meta",
                         \* "check", "sidebar", "map", "ready", "stopped",
                         \* "crashed"

vars == <<series, cats, cpc, scenario_df, meta_dict, assumptions_text, caller,
          requested, country_code, selected_indicators, class_map, row, y, i,
          page, pages, exc, pc, again, other, raw_df, df, meta_df,
          indicator_choice, indicator_title, indicator_note, st_error,
          map_df, map_built, app_exc, apc, text, max_chars, lines, tpc>>

text_vars == <<text, max_chars, lines, tpc>>
classifier_vars == <<series, cats, cpc, again, other>>
app_vars == <<raw_df, df, meta_df, indicator_choice, indicator_title,
              indicator_note, st_error, map_df, map_built, app_exc, apc>>
data_vars == <<scenario_df, meta_dict, assumptions_text>>
report_vars == <<caller, requested, country_code, selected_indicators,
                 class_map, row, y, i, page, pages, exc, pc>>

\* ------------------------------------------------------------------- pages
\* A4 is 210 mm x 297 mm; y positions are kept in mm
PageHeight == 297
BottomMargin == 40

BlankPage ==
    [kind |-> "blank", heading |-> FALSE, assumptions |-> 0,
     header |-> FALSE, rows |-> <<>>, detail |-> <<>>,
     footer |-> FALSE, disclaimer |-> FALSE]

\* a summary page carrying the two-column header
SummaryPage == [BlankPage EXCEPT !.kind = "summary", !.header = TRUE]

NoClasses == [ind \in Inds |-> <<>>]

\* the state before any report is asked for
ReportIdle ==
    /\ caller = "none"
    /\ requested = <<>>
    /\ country_code = ""
    /\ selected_indicators = <<>>
    /\ class_map = NoClasses
    /\ row = <<>>
    /\ y = 0
    /\ i = 0
    /\ page = BlankPage
    /\ pages = <<>>
    /\ exc = "none"
    /\ pc = "idle"

\* --------------------------------------------------- make_pdf_for_country
\* a classification that leaves the last row of the table out
class_of_subset(sdf, ind) ==
    IF ind \in TableCols
    THEN classify_three([r \in 1..nrows(sdf) |->
                            IF r = nrows(sdf) THEN NaN ELSE column(sdf, ind)[r]])
    ELSE Return([r \in 1..nrows(sdf) |-> "NoData"])

\* lines 250-255: classes of every selected indicator over the whole column
class_of(sdf, ind) ==
    IF ind \in TableCols THEN classify_three(column(sdf, ind))
    ELSE Return([r \in 1..nrows(sdf) |-> "NoData"])

\* line 258: rows whose upper-cased ISO3 equals country_code, in table order
rows_of(sdf, code) ==
    SelectSeq([r \in 1..nrows(sdf) |-> r], LAMBDA r : upper(sdf.ISO3[r]) = code)

\* lines 271-287: y after the title, the assumptions block and the header
summary_start(txt) ==
    LET y0 == PageHeight - 40
        y1 == IF Len(txt) > 0
              THEN y0 - 6 - 5 * Len(split_lengths_to_lines(txt, 100)) - 4
              ELSE y0
    IN  y1 - 7

\* lines 249-288: everything before the summary loop.  The first indicator
\* of the list whose classification raises ends the call.
Begin(code, inds) ==
    LET classes == [ind \in Inds |-> class_of(scenario_df, ind)]
        raising == {k \in 1..Len(inds) : classes[inds[k]].exc # "none"}
        first == CHOOSE k \in raising : \A j \in raising : k <= j
    IN  /\ country_code' = code
        /\ selected_indicators' = inds
        /\ UNCHANGED pages
        /\ i' = 1
        /\ IF raising # {}
           THEN /\ exc' = classes[inds[first]].exc
                /\ pc' = "raised"
                /\ UNCHANGED <<class_map, row, y, page>>
           ELSE /\ class_map' =
                     [ind \in Inds |->
                        IF \E j \in 1..Len(inds) : inds[j] = ind
                        THEN classes[ind].val ELSE <<>>]
                /\ row' = rows_of(scenario_df, code)
                /\ y' = summary_start(assumptions_text)
                /\ page' = [SummaryPage EXCEPT
                              !.heading = Len(assumptions_text) > 0,
                              !.assumptions =
                                  Len(split_lengths_to_lines(assumptions_text,
                                                          100))]
                /\ exc' = "none"
                /\ pc' = "summary"

\* a lookup that has no default for the display name
ind_name_blank(ind) ==
    IF ind \in DOMAIN meta_dict THEN meta_dict[ind].IndName ELSE ""

\* meta_dict.get(ind, {}).get("IndName", ind)
ind_name_of(ind) ==
    IF ind \in DOMAIN meta_dict THEN meta_dict[ind].IndName ELSE ind

\* a lookup that gives up the note of an entry whose name is the code
note_of_named(ind) ==
    IF ind \in DOMAIN meta_dict /\ meta_dict[ind].IndName # ind
    THEN meta_dict[ind].Note ELSE <<>>

\* meta_dict.get(ind, {}).get("Note", "")
note_of(ind) ==
    IF ind \in DOMAIN meta_dict THEN meta_dict[ind].Note ELSE <<>>

\* lines 293-301 and 344-350: the category of the selected country.  The
\* lookup of line 294 tests a country code against the integer row index
\* and never succeeds.
cat_of(ind) ==
    IF Len(row) > 0 THEN class_map[ind][row[1]] ELSE "NoData"

\* lines 335-341: the value shown on the detail page; text that float()
\* rejects is shown as it is
NotAvailable == [fmt |-> "N/A", cell |-> NaN]
value_text_of(ind) ==
    IF Len(row) > 0 /\ ind \in TableCols
       /\ column(scenario_df, ind)[row[1]] # NaN
    THEN LET cell == column(scenario_df, ind)[row[1]]
         IN  IF cell = BadText THEN [fmt |-> "str", cell |-> cell]
             ELSE [fmt |-> ",.2f", cell |-> cell]
    ELSE NotAvailable

\* c.showPage(): the page being drawn is emitted and a blank one begins
showPage(p) == Append(pages, p)

\* a page break that starts over without emitting the full page
page_break_lost(drawn) == pages

\* lines 308-315: the summary page is full; footer, disclaimer, showPage
page_break(drawn) ==
    showPage([drawn EXCEPT !.footer = TRUE, !.disclaimer = TRUE])

\* lines 290-322: one pass of the summary loop.  drawString raises
\* AttributeError when handed None instead of a string.
SummaryEntry ==
    /\ pc = "summary"
    /\ i <= Len(selected_indicators)
    /\ LET ind == selected_indicators[i]
           cat == cat_of(ind)
           label == category_to_label(cat)
           drawn == [page EXCEPT !.rows =
                        Append(@, [ind |-> ind, name |-> ind_name_of(ind),
                                   cat |-> cat, label |-> label])]
       IN  IF label = None
           THEN /\ exc' = "AttributeError"
                /\ pc' = "raised"
                /\ UNCHANGED <<y, i, page, pages>>
           ELSE /\ i' = i + 1
                /\ UNCHANGED <<exc, pc>>
                /\ IF y - 6 < BottomMargin
                   THEN /\ pages' = page_break(drawn)
                        /\ page' = SummaryPage
                        /\ y' = PageHeight - 20 - 7
                   ELSE /\ page' = drawn
                        /\ y' = y - 6
                        /\ UNCHANGED pages
    /\ UNCHANGED <<caller, requested, country_code, selected_indicators,
                   class_map, row>>
    /\ UNCHANGED <<classifier_vars, data_vars, app_vars>>
    /\ UNCHANGED text_vars

\* lines 324-327: footer of the last summary page, then the detail pages
SummaryEnd ==
    /\ pc = "summary"
    /\ i > Len(selected_indicators)
    /\ pages' = showPage([page EXCEPT !.footer = TRUE])
    /\ page' = BlankPage
    /\ i' = 1
    /\ pc' = "details"
    /\ UNCHANGED <<caller, requested, country_code, selected_indicators,
                   class_map, row, y, exc>>
    /\ UNCHANGED <<classifier_vars, data_vars, app_vars>>
    /\ UNCHANGED text_vars

\* lines 330-374: one detail page
DetailPage ==
    /\ pc = "details"
    /\ i <= Len(selected_indicators)
    /\ LET ind == selected_indicators[i]
           cat == cat_of(ind)
           entry == [ind |-> ind, name |-> ind_name_of(ind),
                     value |-> value_text_of(ind), cat |-> cat,
                     label |-> category_to_label(cat),
                     note |-> split_lengths_to_lines(note_of(ind), 100)]
       IN  pages' = showPage([BlankPage EXCEPT !.kind = "detail",
                                 !.detail = <<entry>>, !.footer = TRUE])
    /\ i' = i + 1
    /\ UNCHANGED <<caller, requested, country_code, selected_indicators,
                   class_map, row, y, page, exc, pc>>
    /\ UNCHANGED <<classifier_vars, data_vars, app_vars>>
    /\ UNCHANGED text_vars

\* lines 376-379: c.save() emits a pending page only if something was drawn
\* on it, and the bytes are returned
Save ==
    /\ pc = "details"
    /\ i > Len(selected_indicators)
    /\ pages' = IF page # BlankPage THEN showPage(page) ELSE pages
    /\ page' = BlankPage
    /\ pc' = "saved"
    /\ UNCHANGED <<caller, requested, country_code, selected_indicators,
                   class_map, row, y, i, exc>>
    /\ UNCHANGED <<classifier_vars, data_vars, app_vars>>
    /\ UNCHANGED text_vars

\* a call of make_pdf_for_country with any country code and indicator list
CallCodes(sdf) == {sdf.ISO3[r] : r \in 1..nrows(sdf)} \cup {AbsentCode, "dza"}

make_pdf_for_country ==
    /\ apc = "ready"
    /\ pc = "idle"
    /\ \E code \in CallCodes(scenario_df), inds \in IndLists :
          /\ caller' = "call"
          /\ requested' = inds
          /\ Begin(code, inds)
    /\ UNCHANGED <<classifier_vars, data_vars, app_vars>>
    /\ UNCHANGED text_vars

\* lines 533-567 of the app: the country is picked by name among the rows of
\* the table and the indicators among its columns, in the order of selection
ScriptLists == {l \in IndLists : \A k \in 1..Len(l) : l[k] \in TableCols}

GeneratePDF ==
    /\ apc = "ready"
    /\ pc = "idle"
    /\ nrows(scenario_df) > 0
    /\ \E r \in 1..nrows(scenario_df), sel \in ScriptLists :
          LET selected_country == scenario_df.Country[r]
              row_country ==
                  SelectSeq([q \in 1..nrows(scenario_df) |-> q],
                            LAMBDA q : scenario_df.Country[q] = selected_country)
              iso_val == upper(scenario_df.ISO3[row_country[1]])
              valid_inds == SelectSeq(sel, LAMBDA ind : ind \in TableCols)
          IN  /\ caller' = "script"
              /\ requested' = sel
              /\ IF Len(valid_inds) = 0
                 THEN /\ pc' = "refused"
                      /\ UNCHANGED <<country_code, selected_indicators,
                                     class_map, row, y, i, page, pages, exc>>
                 ELSE Begin(iso_val, valid_inds)
    /\ UNCHANGED <<classifier_vars, data_vars, app_vars>>
    /\ UNCHANGED text_vars

\* ------------------------------------------------------------ the app script
\* the world layer: every country of the shapefile, codes upper-cased
world_gdf == Codes

NoMap == [ISO3 |-> <<>>, value |-> <<>>, Category |-> <<>>]

\* the state of the app before the script has run
AppIdle ==
    /\ df = NoSheet
    /\ indicator_choice = ""
    /\ indicator_title = ""
    /\ indicator_note = <<>>
    /\ st_error = ""
    /\ map_df = NoMap
    /\ map_built = FALSE
    /\ app_exc = "none"

\* the cells of the column named name, top to bottom
cells(sheet, name) ==
    [r \in 1..Len(sheet.rows) |-> sheet.rows[r][col_pos(sheet.columns, name)]]

\* lines 423-427: the name column, else the second column
name_col_of(sheet) ==
    IF count(sheet.columns, "Country") > 0 THEN "Country"
    ELSE IF Len(sheet.columns) > 1 THEN sheet.columns[2] ELSE "ISO3"

\* line 430: the columns that are neither code nor name
indicator_cols_of(sheet) ==
    SelectSeq(sheet.columns, LAMBDA c : c \notin {"ISO3", name_col_of(sheet)})

\* the loaded sheet as the table make_pdf_for_country reads
as_table(sheet) ==
    [ISO3 |-> IF count(sheet.columns, "ISO3") > 0 THEN cells(sheet, "ISO3")
              ELSE <<>>,
     Country |-> cells(sheet, name_col_of(sheet)),
     X |-> cells(sheet, "X"), Y |-> cells(sheet, "Y")]

\* lines 387-389: load_excel on the workbook; an exception ends the script
LoadExcel ==
    /\ apc = "load"
    /\ LET loaded == load_excel(raw_df)
       IN  IF loaded.exc # "none"
           THEN /\ app_exc' = loaded.exc
                /\ apc' = "crashed"
                /\ UNCHANGED df
           ELSE /\ df' = loaded.val
                /\ apc' = "meta"
                /\ UNCHANGED app_exc
    /\ UNCHANGED <<raw_df, meta_df, indicator_choice, indicator_title,
                   indicator_note, st_error, map_df, map_built>>
    /\ UNCHANGED <<classifier_vars, data_vars, report_vars>>
    /\ UNCHANGED text_vars

\* lines 394-407
BuildMeta ==
    /\ apc = "meta"
    /\ meta_dict' = meta_dict_of(meta_df)
    /\ apc' = "check"
    /\ UNCHANGED <<raw_df, df, meta_df, indicator_choice, indicator_title,
                   indicator_note, st_error, map_df, map_built, app_exc>>
    /\ UNCHANGED <<classifier_vars, scenario_df, assumptions_text,
                   report_vars>>
    /\ UNCHANGED text_vars

ISO3NotFound == "'ISO3' column not found in selected scenario"
NoIndicators == "No indicators found in the selected sheet."

\* the check without st.stop(): the script goes on after the message
CheckISO3_unblocked ==
    /\ apc = "check"
    /\ st_error' = IF count(df.columns, "ISO3") = 0 THEN ISO3NotFound
                   ELSE st_error
    /\ apc' = "sidebar"
    /\ UNCHANGED <<raw_df, df, meta_df, indicator_choice, indicator_title,
                   indicator_note, map_df, map_built, app_exc>>
    /\ UNCHANGED <<classifier_vars, data_vars, report_vars>>
    /\ UNCHANGED text_vars

\* lines 417-420: without an ISO3 column the error is shown and st.stop()
\* ends the script run
CheckISO3 ==
    /\ apc = "check"
    /\ IF count(df.columns, "ISO3") = 0
       THEN /\ st_error' = ISO3NotFound
            /\ apc' = "stopped"
       ELSE /\ apc' = "sidebar"
            /\ UNCHANGED st_error
    /\ UNCHANGED <<raw_df, df, meta_df, indicator_choice, indicator_title,
                   indicator_note, map_df, map_built, app_exc>>
    /\ UNCHANGED <<classifier_vars, data_vars, report_vars>>
    /\ UNCHANGED text_vars

\* lines 422-461: name column, indicator list, the indicator picked for the
\* map and its title and note from meta_dict
Sidebar ==
    /\ apc = "sidebar"
    /\ IF Len(indicator_cols_of(df)) = 0
       THEN /\ st_error' = NoIndicators
            /\ apc' = "stopped"
            /\ UNCHANGED <<indicator_choice, indicator_title, indicator_note,
                           scenario_df>>
       ELSE /\ \E k \in 1..Len(indicator_cols_of(df)) :
                  LET choice == indicator_cols_of(df)[k]
                  IN  /\ indicator_choice' = choice
                      /\ indicator_title' = ind_name_of(choice)
                      /\ indicator_note' = note_of(choice)
            /\ scenario_df' = as_table(df)
            /\ apc' = "map"
            /\ UNCHANGED st_error
    /\ UNCHANGED <<raw_df, df, meta_df, map_df, map_built, app_exc>>
    /\ UNCHANGED <<classifier_vars, meta_dict, assumptions_text, report_vars>>
    /\ UNCHANGED text_vars

\* line 471: world_gdf.merge(df, on="ISO3", how="left"), the column ind of
\* it: per country of the world layer the cells of its rows in the table,
\* and a missing cell when it has none
RECURSIVE merge(_, _, _)
merge(world, sdf, ind) ==
    IF Len(world) = 0 THEN <<>>
    ELSE LET hits == SelectSeq([r \in 1..nrows(sdf) |-> r],
                               LAMBDA r : sdf.ISO3[r] = Head(world))
             here == IF Len(hits) = 0
                     THEN <<[ISO3 |-> Head(world), value |-> NaN]>>
                     ELSE [k \in 1..Len(hits) |->
                             [ISO3 |-> Head(world),
                              value |-> column(sdf, ind)[hits[k]]]]
         IN  here \o merge(Tail(world), sdf, ind)

\* lines 469-505: the join, the classification for the map and the figure;
\* an exception of merge or classify_three ends the script
DrawMap ==
    /\ apc = "map"
    /\ LET joined == merge(world_gdf, scenario_df, indicator_choice)
           values == [k \in 1..Len(joined) |-> joined[k].value]
           Category == classify_three(values)
       IN  IF count(df.columns, "ISO3") = 0
           THEN /\ app_exc' = "KeyError"
                /\ apc' = "crashed"
                /\ UNCHANGED <<map_df, map_built>>
           ELSE IF Category.exc # "none"
           THEN /\ app_exc' = Category.exc
                /\ apc' = "crashed"
                /\ UNCHANGED <<map_df, map_built>>
           ELSE /\ map_df' = [ISO3 |-> [k \in 1..Len(joined) |-> joined[k].ISO3],
                              value |-> values, Category |-> Category.val]
                /\ map_built' = TRUE
                /\ apc' = "ready"
                /\ UNCHANGED app_exc
    /\ UNCHANGED <<raw_df, df, meta_df, indicator_choice, indicator_title,
                   indicator_note, st_error>>
    /\ UNCHANGED <<classifier_vars, data_vars, report_vars>>
    /\ UNCHANGED text_vars

\* ------------------------------------------------------ classifier on its own
Columns == UNION { [1..n -> Cells] : n \in 0..MaxLen }

Classify ==
    /\ cpc = "input"
    /\ cats' = classify_three(series)
    /\ cpc' = "v3"
    /\ UNCHANGED <<series, again, other, data_vars, report_vars, app_vars>>
    /\ UNCHANGED text_vars

\* columns classified between the two classifications of series
OtherColumns == { <<>>, <<2, 2>>, <<3, 1, 2>> }

\* another column goes through classify_three
ClassifyOther ==
    /\ cpc = "v3"
    /\ Len(other) = 0
    /\ \E o \in OtherColumns :
          other' = <<[series |-> o, cats |-> classify_three(o)]>>
    /\ UNCHANGED <<series, cats, cpc, again, data_vars, report_vars, app_vars>>
    /\ UNCHANGED text_vars

\* a classifier that remembers the column it was last handed
ClassifyAgain_remembering ==
    /\ cpc = "v3"
    /\ again' = IF Len(other) > 0 THEN other[1].cats
                ELSE classify_three(series)
    /\ cpc' = "again"
    /\ UNCHANGED <<series, cats, other, data_vars, report_vars, app_vars>>
    /\ UNCHANGED text_vars

\* series goes through classify_three a second time
ClassifyAgain ==
    /\ cpc = "v3"
    /\ again' = classify_three(series)
    /\ cpc' = "again"
    /\ UNCHANGED <<series, cats, other, data_vars, report_vars, app_vars>>
    /\ UNCHANGED text_vars

Classify_v2 ==
    /\ cpc = "input"
    /\ cats' = classify_three_v2(series)
    /\ cpc' = "v2"
    /\ UNCHANGED <<series, again, other, data_vars, report_vars, app_vars>>
    /\ UNCHANGED text_vars

Classify_v1 ==
    /\ cpc = "input"
    /\ cats' = classify_three_v1(series)
    /\ cpc' = "v1"
    /\ UNCHANGED <<series, again, other, data_vars, report_vars, app_vars>>
    /\ UNCHANGED text_vars

\* ---------------------------------------------------- the wrapper on its own
\* no text has been handed to the wrapper
TextIdle ==
    /\ text = <<>>
    /\ max_chars = 0
    /\ lines = Return(<<>>)
    /\ tpc = "off"

SplitText ==
    /\ tpc = "input"
    /\ lines' = Return(split_text_to_lines(text, max_chars))
    /\ tpc' = "v3"
    /\ UNCHANGED <<text, max_chars>>
    /\ UNCHANGED <<classifier_vars, data_vars, report_vars, app_vars>>

SplitText_v2 ==
    /\ tpc = "input"
    /\ lines' = split_text_to_lines_v2(text, max_chars)
    /\ tpc' = "v2"
    /\ UNCHANGED <<text, max_chars>>
    /\ UNCHANGED <<classifier_vars, data_vars, report_vars, app_vars>>

\* ------------------------------------------------------------ specifications
EmptyTable == [ISO3 |-> <<>>, Country |-> <<>>, X |-> <<>>, Y |-> <<>>]

\* the report of a country, over every table, metadata and assumption text
Init ==
    /\ series = <<>>
    /\ cats = Return(<<>>)
    /\ cpc = "off"
    /\ scenario_df \in Tables
    /\ meta_dict = Meta
    /\ assumptions_text \in AssumptionTexts
    /\ ReportIdle
    /\ again = Return(<<>>)
    /\ other = <<>>
    /\ raw_df = NoSheet
    /\ meta_df = NoSheet
    /\ AppIdle
    /\ apc = "ready"
    /\ TextIdle

Next ==
    \/ make_pdf_for_country
    \/ GeneratePDF
    \/ SummaryEntry
    \/ SummaryEnd
    \/ DetailPage
    \/ Save

Spec == Init /\ [][Next]_vars

\* the classifiers applied to every column of at most MaxLen cells
InitClassify ==
    /\ series \in Columns
    /\ cats = Return(<<>>)
    /\ cpc = "input"
    /\ scenario_df = EmptyTable
    /\ meta_dict = EmptyMeta
    /\ assumptions_text = <<>>
    /\ ReportIdle
    /\ again = Return(<<>>)
    /\ other = <<>>
    /\ raw_df = NoSheet
    /\ meta_df = NoSheet
    /\ AppIdle
    /\ apc = "off"
    /\ TextIdle

NextClassify ==
    \/ Classify
    \/ ClassifyOther
    \/ ClassifyAgain
    \/ Classify_v2
    \/ Classify_v1

SpecClassify == InitClassify /\ [][NextClassify]_vars

\* one run of the app script: every scenario sheet with the metadata sheet
\* of the workbook, and every metadata sheet with a complete scenario sheet
GoodSheet ==
    [columns |-> <<"uCode", "uName", "X", "Y">>,
     rows |-> [r \in 1..3 |-> <<Codes[r], Names[r], r, r>>]]
GoodMeta ==
    [columns |-> <<"iCode", "IndName", "Note">>,
     rows |-> << <<"X", "Hydrogen cost", <<8, 4>>>> >>]

InitApp ==
    /\ series = <<>>
    /\ cats = Return(<<>>)
    /\ cpc = "off"
    /\ again = Return(<<>>)
    /\ other = <<>>
    /\ \/ raw_df \in RawSheets /\ meta_df = GoodMeta
       \/ raw_df = GoodSheet /\ meta_df \in MetaSheets
    /\ scenario_df = EmptyTable
    /\ meta_dict = EmptyMeta
    /\ assumptions_text = <<>>
    /\ ReportIdle
    /\ AppIdle
    /\ apc = "load"
    /\ TextIdle

NextApp ==
    \/ LoadExcel
    \/ BuildMeta
    \/ CheckISO3
    \/ Sidebar
    \/ DrawMap
    \/ GeneratePDF
    \/ SummaryEntry
    \/ SummaryEnd
    \/ DetailPage
    \/ Save

SpecApp == InitApp /\ [][NextApp]_vars

\* the wrappers applied to every text of at most MaxText characters and
\* every width up to MaxChars
InitText ==
    /\ series = <<>>
    /\ cats = Return(<<>>)
    /\ cpc = "off"
    /\ again = Return(<<>>)
    /\ other = <<>>
    /\ scenario_df = EmptyTable
    /\ meta_dict = EmptyMeta
    /\ assumptions_text = <<>>
    /\ ReportIdle
    /\ raw_df = NoSheet
    /\ meta_df = NoSheet
    /\ AppIdle
    /\ apc = "off"
    /\ text \in Texts
    /\ max_chars \in 1..MaxChars
    /\ lines = Return(<<>>)
    /\ tpc = "input"

NextText ==
    \/ SplitText
    \/ SplitText_v2

SpecText == InitText /\ [][NextText]_vars

\* ------------------------------------------------- what a report contains
RECURSIVE summary_rows(_)
summary_rows(ps) ==
    IF Len(ps) = 0 THEN <<>>
    ELSE summary_rows(SubSeq(ps, 1, Len(ps) - 1)) \o ps[Len(ps)].rows

RECURSIVE detail_entries(_)
detail_entries(ps) ==
    IF Len(ps) = 0 THEN <<>>
    ELSE detail_entries(SubSeq(ps, 1, Len(ps) - 1)) \o ps[Len(ps)].detail

\* the summary rows and detail entries drawn so far, in order
SummaryRows == summary_rows(Append(pages, page))
DetailEntries == detail_entries(pages)
inds_of(entries) == [k \in 1..Len(entries) |-> entries[k].ind]

\* the request is over: bytes returned, an exception, or the app refused
Terminal == pc \in {"saved", "raised", "refused"}

\* a cell that is missing or not coercible to a number
IsNull(cell) == cell \in {NaN, BadText}

\* ------------------------------------------------------------------ claims

\* C1: for every column with at least 2 distinct non-null values,
\* classify_three returns a sequence of the same length and order in which
\* every position holding a number carries one of Low, Medium, High and
\* exactly the null positions (missing or non-coercible) carry NoData; no
\* other label ever appears.
C1_OnlyFourLabels ==
    (cpc = "v3" /\ nunique(to_numeric(series)) >= 2) =>
        /\ cats.exc = "none"
        /\ Len(cats.val) = Len(series)
        /\ \A k \in 1..Len(series) :
              IF IsNull(series[k]) THEN cats.val[k] = "NoData"
              ELSE cats.val[k] \in {"Low", "Medium", "High"}

\* C2: for every column with exactly one distinct non-null value,
\* classify_three returns Medium at every non-null position and NoData at
\* every null position, and does not raise.
C2_ConstantIsMedium ==
    (cpc = "v3" /\ nunique(to_numeric(series)) = 1) =>
        /\ cats.exc = "none"
        /\ Len(cats.val) = Len(series)
        /\ \A k \in 1..Len(series) :
              cats.val[k] = IF IsNull(series[k]) THEN "NoData" ELSE "Medium"

\* C3: for every column of length N whose values are all null, N = 0
\* included, classify_three returns NoData at all N positions and does not
\* raise.
C3_AllNullIsNoData ==
    (cpc = "v3" /\ \A k \in 1..Len(series) : IsNull(series[k])) =>
        /\ cats.exc = "none"
        /\ cats.val = [k \in 1..Len(series) |-> "NoData"]

\* every requested column of the table holds at least two distinct
\* numbers, the case in which classify_three returns labels
Classifiable(inds) ==
    \A k \in 1..Len(inds) :
        inds[k] \in TableCols =>
            nunique(to_numeric(column(scenario_df, inds[k]))) >= 2

\* C4: for every indicator list handed to make_pdf_for_country, the empty
\* list and lists naming indicators that are no columns included, the
\* report has exactly one summary entry and one detail entry per requested
\* indicator, in the order given; no indicator is dropped.  Stated for the
\* tables whose requested columns hold at least two distinct numbers.
C4_OneEntryPerIndicator ==
    (Terminal /\ caller = "call" /\ Classifiable(requested)) =>
        /\ pc = "saved"
        /\ inds_of(SummaryRows) = requested
        /\ inds_of(DetailEntries) = requested

\* C5: when the country code matches no row of the table,
\* make_pdf_for_country still produces a report in which every requested
\* indicator has an entry with category NoData and value N/A, with the
\* display name and note resolved as for a country that is present.  Stated
\* for the tables whose requested columns hold at least two distinct numbers.
C5_AbsentCountryStillRenders ==
    (Terminal /\ caller = "call" /\ Classifiable(requested)
       /\ \A r \in 1..nrows(scenario_df) :
             upper(scenario_df.ISO3[r]) # country_code) =>
        /\ pc = "saved"
        /\ Len(SummaryRows) = Len(requested)
        /\ Len(DetailEntries) = Len(requested)
        /\ \A k \in 1..Len(requested) :
              /\ SummaryRows[k].ind = requested[k]
              /\ SummaryRows[k].cat = "NoData"
              /\ SummaryRows[k].name = ind_name_of(requested[k])
              /\ DetailEntries[k].ind = requested[k]
              /\ DetailEntries[k].cat = "NoData"
              /\ DetailEntries[k].value = NotAvailable
              /\ DetailEntries[k].name = ind_name_of(requested[k])
              /\ DetailEntries[k].note =
                     split_lengths_to_lines(note_of(requested[k]), 100)

\* C6: report generation is total: for every table with the country-code
\* column (here: with at least one row), every country code, indicator
\* list, metadata and assumption text, constant and all-null columns
\* included, make_pdf_for_country returns document bytes without raising,
\* and an empty assumption block is omitted.
C6_ReportIsTotal ==
    nrows(scenario_df) > 0 =>
        /\ pc # "raised"
        /\ exc = "none"
        /\ (pc = "saved" => pages[1].heading = (Len(assumptions_text) > 0))

\* C7: the category reported for the selected country and an indicator is
\* the label classify_three gives that country's row when it classifies the
\* indicator column over all rows of the table.
C7_CategoryFromWholeColumn ==
    LET matches == {r \in 1..nrows(scenario_df) :
                       upper(scenario_df.ISO3[r]) = country_code}
        first == CHOOSE r \in matches : \A q \in matches : r <= q
        whole(ind) == classify_three(column(scenario_df, ind))
        agrees(e) ==
            (e.ind \in TableCols /\ matches # {}) =>
                /\ whole(e.ind).exc = "none"
                /\ e.cat = whole(e.ind).val[first]
    IN  /\ \A k \in 1..Len(SummaryRows) : agrees(SummaryRows[k])
        /\ \A k \in 1..Len(DetailEntries) : agrees(DetailEntries[k])

\* C7 witness: a finished report shows Medium, which no classification of
\* the country's value alone can give
C7_Witness ==
    /\ pc = "saved"
    /\ \E k \in 1..Len(DetailEntries) : DetailEntries[k].cat = "Medium"
    /\ \E k \in 1..Len(SummaryRows) : SummaryRows[k].cat = "Medium"

\* C8: the qualitative label function maps Low to "Low", Medium to
\* "Moderate", High to "High" and NoData to "No data", and returns no
\* missing result for any category handed to it by the report.
C8_LabelOfEveryCategory ==
    (pc = "summary" /\ i <= Len(selected_indicators)
       /\ cat_of(selected_indicators[i]) \in Categories) =>
        category_to_label(cat_of(selected_indicators[i])) =
            CASE cat_of(selected_indicators[i]) = "Low" -> "Low"
              [] cat_of(selected_indicators[i]) = "Medium" -> "Moderate"
              [] cat_of(selected_indicators[i]) = "High" -> "High"
              [] cat_of(selected_indicators[i]) = "NoData" -> "No data"

\* the number of times a summary table of left rows overflows the page when
\* its first row is drawn at yy
RECURSIVE Overflows(_, _)
Overflows(yy, left) ==
    IF left = 0 THEN 0
    ELSE IF yy - 6 < BottomMargin THEN 1 + Overflows(PageHeight - 27, left - 1)
    ELSE Overflows(yy - 6, left - 1)

\* C9: the number of pages of a report is 1 summary page plus one detail
\* page per entry plus one extra summary page for each overflow of the
\* summary table; without overflow a report of k entries has k + 1 pages.
C9_PageCount ==
    pc = "saved" =>
        Len(pages) = 1 + Len(selected_indicators)
                       + Overflows(summary_start(assumptions_text),
                                   Len(selected_indicators))

\* C9 witness: a finished report of two entries whose summary overflowed
C9_Witness ==
    /\ pc = "saved"
    /\ Len(selected_indicators) = 2
    /\ Len(pages) = 4

\* C10: every page of a report carries the footer line, and the disclaimer
\* line is drawn on page 1 and on no other page, whether or not the summary
\* table overflows.
C10_FooterAndDisclaimer ==
    pc = "saved" =>
        \A k \in 1..Len(pages) :
            /\ pages[k].footer
            /\ pages[k].disclaimer <=> (k = 1)

\* ------------------------------------------------ claims on the metadata
\* the metadata sheet has its code and name columns, whatever their case
\* and surrounding blanks
MetaColumns ==
    /\ \E k \in 1..Len(meta_df.columns) :
          lower(strip(meta_df.columns[k])) = "icode"
    /\ \E k \in 1..Len(meta_df.columns) :
          lower(strip(meta_df.columns[k])) = "indname"

\* the cell of metadata row r under the header that reads key
MetaCell(r, key) ==
    meta_df.rows[r][CHOOSE k \in 1..Len(meta_df.columns) :
                       lower(strip(meta_df.columns[k])) = key]

\* the rows of the metadata sheet that carry the code ind
MetaRowsFor(ind) ==
    IF MetaColumns
    THEN {r \in 1..Len(meta_df.rows) : MetaCell(r, "icode") = ind}
    ELSE {}

\* the script has built meta_dict
MetaBuilt == apc \in {"check", "sidebar", "map", "ready", "stopped"}

\* the script has resolved the indicator of the map
Resolved == MetaBuilt /\ indicator_choice # ""

\* C11: an indicator that has no row in the metadata sheet, and any
\* indicator when the sheet is empty or lacks its code or name column,
\* resolves to the raw identifier as display name and to the empty note,
\* in the title of the map and on the pages of the report.
C11_ResolveFallsBack ==
    /\ (Resolved /\ MetaRowsFor(indicator_choice) = {}) =>
          /\ indicator_title = indicator_choice
          /\ indicator_note = <<>>
    /\ \A k \in 1..Len(SummaryRows) :
          MetaRowsFor(SummaryRows[k].ind) = {} =>
              SummaryRows[k].name = SummaryRows[k].ind
    /\ \A k \in 1..Len(DetailEntries) :
          MetaRowsFor(DetailEntries[k].ind) = {} =>
              /\ DetailEntries[k].name = DetailEntries[k].ind
              /\ DetailEntries[k].note = <<>>

\* C11 witness: a finished report on Y, which the non-empty metadata sheet
\* does not list, and the map titled after an unlisted indicator
C11_Witness ==
    /\ pc = "saved"
    /\ MetaColumns
    /\ Len(meta_df.rows) > 0
    /\ MetaRowsFor(indicator_choice) = {}
    /\ indicator_title = indicator_choice
    /\ \E k \in 1..Len(DetailEntries) :
          /\ DetailEntries[k].ind = "Y"
          /\ MetaRowsFor("Y") = {}
          /\ DetailEntries[k].name = "Y"

\* the last metadata row of the code ind has no name
LastRowUnnamed(ind) ==
    /\ MetaRowsFor(ind) # {}
    /\ \E r \in MetaRowsFor(ind) :
          /\ \A q \in MetaRowsFor(ind) : q <= r
          /\ MetaCell(r, "indname") = NA

\* the note of the last metadata row of the code ind, empty when the sheet
\* has no note column or the cell is missing
LastNote(ind) ==
    LET r == CHOOSE q \in MetaRowsFor(ind) : \A p \in MetaRowsFor(ind) : p <= q
        noted == \E k \in 1..Len(meta_df.columns) :
                    lower(strip(meta_df.columns[k])) = "note"
    IN  IF noted /\ MetaCell(r, "note") # NoteNA THEN MetaCell(r, "note")
        ELSE <<>>

\* C12 as stated: a metadata row whose name is missing is left out of the
\* mapping, so its indicator resolves to the raw identifier and an empty
\* note even when the row carries a note.
C12_UnnamedRowExcluded ==
    \A ind \in Inds :
        (MetaBuilt /\ LastRowUnnamed(ind)) =>
            /\ ind \notin DOMAIN meta_dict
            /\ (Resolved /\ indicator_choice = ind) => indicator_note = <<>>

\* C12 amended: a metadata row whose name is missing is kept in the
\* mapping with its code as display name and with its own note, so its
\* indicator resolves to the raw identifier and to the note of the row.
C12_UnnamedRowKeepsNote ==
    \A ind \in Inds :
        (MetaBuilt /\ LastRowUnnamed(ind)) =>
            /\ ind \in DOMAIN meta_dict
            /\ meta_dict[ind] = [IndName |-> ind, Note |-> LastNote(ind)]
            /\ (Resolved /\ indicator_choice = ind) =>
                  /\ indicator_title = ind
                  /\ indicator_note = LastNote(ind)
            /\ \A k \in 1..Len(DetailEntries) :
                  DetailEntries[k].ind = ind =>
                      /\ DetailEntries[k].name = ind
                      /\ DetailEntries[k].note =
                             split_lengths_to_lines(LastNote(ind), 100)

\* C12 witness: the map indicator X has a metadata row without a name and
\* with a note, and is shown under its code with that note
C12_Witness ==
    /\ Resolved
    /\ indicator_choice = "X"
    /\ LastRowUnnamed("X")
    /\ LastNote("X") = <<8, 4>>
    /\ indicator_title = "X"
    /\ indicator_note = <<8, 4>>

\* --------------------------------------------------- claims on the report
\* C13: when a requested indicator is no column of the scenario table, its
\* entry in the report has category NoData and value N/A, for every country
\* code, and the entries of the other requested indicators are what they
\* are without it: the category of the country's row in the classified
\* column and the value of its cell.  Stated for the tables whose requested
\* columns hold at least two distinct numbers.
C13_AbsentColumnIsNoData ==
    (Terminal /\ caller = "call" /\ Classifiable(requested)
       /\ \E k \in 1..Len(requested) : requested[k] \notin TableCols) =>
        /\ pc = "saved"
        /\ Len(SummaryRows) = Len(requested)
        /\ Len(DetailEntries) = Len(requested)
        /\ \A k \in 1..Len(requested) :
              /\ SummaryRows[k].ind = requested[k]
              /\ DetailEntries[k].ind = requested[k]
              /\ IF requested[k] \notin TableCols
                 THEN /\ SummaryRows[k].cat = "NoData"
                      /\ DetailEntries[k].cat = "NoData"
                      /\ DetailEntries[k].value = NotAvailable
                 ELSE /\ SummaryRows[k].cat = cat_of(requested[k])
                      /\ DetailEntries[k].cat = cat_of(requested[k])
                      /\ DetailEntries[k].value = value_text_of(requested[k])

\* C14: the row of the selected country is found by a match on the country
\* code that ignores case: whatever the case of the code handed to
\* make_pdf_for_country, the rows selected are those whose upper-cased code
\* equals the upper-cased argument.
C14_RowMatchIgnoresCase ==
    pc \in {"summary", "details", "saved"} =>
        row = rows_of(scenario_df, upper(country_code))

\* ----------------------------------------------- claims on the classifier
\* the column after to_numeric, and its numbers in ascending order
Coerced == to_numeric(series)
Sorted == sort_values(Coerced)

RankLabel(x) ==
    IF x = Sorted[1] THEN "Low"
    ELSE IF x = Sorted[Len(Sorted)] THEN "High" ELSE "Medium"

\* C16 as stated: for a column of exactly three distinct non-null values,
\* classify_three labels the smallest Low, the middle one Medium and the
\* largest High, whatever the order of the rows.
C16_ThreeValuesByRank ==
    (cpc = "v3" /\ nunique(Coerced) = 3) =>
        /\ cats.exc = "none"
        /\ \A k \in 1..Len(series) :
              Coerced[k] # NaN => cats.val[k] = RankLabel(Coerced[k])

\* C16 amended: for a column whose non-null cells are three pairwise
\* different numbers, one cell each, classify_three labels the smallest
\* Low, the middle one Medium and the largest High, whatever the order of
\* the rows and wherever the null cells are.
C16_ThreeCellsByRank ==
    (cpc = "v3" /\ nunique(Coerced) = 3 /\ Len(Sorted) = 3) =>
        /\ cats.exc = "none"
        /\ \A k \in 1..Len(series) :
              Coerced[k] # NaN => cats.val[k] = RankLabel(Coerced[k])

\* C16 witness: three unevenly spaced numbers out of order, next to a gap
C16_Witness ==
    /\ cpc = "v3"
    /\ series = <<4, NaN, 1, 2>>
    /\ cats.exc = "none"
    /\ cats.val[1] = "High"
    /\ cats.val[3] = "Low"
    /\ cats.val[4] = "Medium"

\* the tercile edges of the column do not make three bins
TercilesFail == qcut(Coerced).exc # "none"

\* the label of x among three ranges of equal width from the smallest to
\* the largest number of the column
EqualWidthLabel(x) ==
    LET mn == Sorted[1]
        w == Sorted[Len(Sorted)] - mn
    IN  IF 3 * (x - mn) <= w THEN "Low"
        ELSE IF 3 * (x - mn) <= 2 * w THEN "Medium" ELSE "High"

\* C19: when the tercile computation fails for a column with at least two
\* distinct non-null values, classify_three does not raise: it labels the
\* numbers by three ranges of equal width between the smallest and the
\* largest of them, and the null positions carry NoData.
C19_FallbackEqualWidth ==
    (cpc = "v3" /\ nunique(Coerced) >= 2 /\ TercilesFail) =>
        /\ cats.exc = "none"
        /\ Len(cats.val) = Len(series)
        /\ \A k \in 1..Len(series) :
              cats.val[k] = IF Coerced[k] = NaN THEN "NoData"
                            ELSE EqualWidthLabel(Coerced[k])

\* C20: where the terciles make three bins, a number equal to the lower
\* tercile edge is Low, a number equal to the upper tercile edge is Medium,
\* and the smallest number is Low.
C20_EdgeGoesToLowerCategory ==
    (cpc = "v3" /\ ~TercilesFail /\ cats.exc = "none") =>
        \A k \in 1..Len(series) :
            Coerced[k] # NaN =>
                /\ 3 * Coerced[k] = quantile(Sorted, 1) => cats.val[k] = "Low"
                /\ 3 * Coerced[k] = quantile(Sorted, 2) =>
                       cats.val[k] = "Medium"
                /\ Coerced[k] = Sorted[1] => cats.val[k] = "Low"

\* C20 witness: a column with one number on each tercile edge
C20_Witness ==
    /\ cpc = "v3"
    /\ ~TercilesFail
    /\ cats.exc = "none"
    /\ \E k \in 1..Len(series) :
          /\ Coerced[k] # NaN
          /\ 3 * Coerced[k] = quantile(Sorted, 1)
          /\ cats.val[k] = "Low"
    /\ \E k \in 1..Len(series) :
          /\ Coerced[k] # NaN
          /\ 3 * Coerced[k] = quantile(Sorted, 2)
          /\ cats.val[k] = "Medium"

\* ------------------------------------------------ claims on the app script
\* a header of the raw sheet reads, case and surrounding blanks aside, as
\* one of keys
RawHas(keys) ==
    \E k \in 1..Len(raw_df.columns) : lower(strip(raw_df.columns[k])) \in keys

CodeKeys == {"ucode", "code", "iso3"}
NameKeys == {"uname", "country"}

\* C17: a raw scenario sheet whose headers contain a case or blank variant
\* of uCode, code or iso3 and one of uName or country is loaded as a table
\* with one code column ISO3 and one name column Country, made from such
\* columns; the codes are the raw codes as upper-cased strings, and every
\* other column keeps its name (surrounding blanks aside) and its values.
\* Stated for the sheets with at least one data row.
C17_NormalisedSheet ==
    (apc # "load" /\ RawHas(CodeKeys) /\ RawHas(NameKeys)
       /\ Len(raw_df.rows) > 0) =>
        /\ Len(df.columns) = Len(raw_df.columns)
        /\ Len(df.rows) = Len(raw_df.rows)
        /\ count(df.columns, "ISO3") = 1
        /\ count(df.columns, "Country") = 1
        /\ \A k \in 1..Len(df.columns) :
              IF df.columns[k] = "ISO3"
              THEN /\ lower(strip(raw_df.columns[k])) \in CodeKeys
                   /\ \A r \in 1..Len(df.rows) :
                         df.rows[r][k] = upper(str(raw_df.rows[r][k]))
              ELSE /\ \A r \in 1..Len(df.rows) :
                         df.rows[r][k] = raw_df.rows[r][k]
                   /\ IF df.columns[k] = "Country"
                      THEN lower(strip(raw_df.columns[k])) \in NameKeys
                      ELSE df.columns[k] = strip(raw_df.columns[k])

\* C18: when the loaded scenario table has no ISO3 column, the script is
\* stopped with the error that names the column, and neither the map nor a
\* report is built from the table in that run.
C18_NoCodeColumnBlocks ==
    (apc \notin {"load", "meta", "check"} /\ Len(df.columns) > 0
       /\ count(df.columns, "ISO3") = 0) =>
        /\ apc = "stopped"
        /\ st_error = ISO3NotFound
        /\ ~map_built
        /\ map_df = NoMap
        /\ pc = "idle"
        /\ pages = <<>>

\* C18 witness: a sheet with rows and indicators but no code column has
\* stopped the script
C18_Witness ==
    /\ apc = "stopped"
    /\ st_error = ISO3NotFound
    /\ ~RawHas(CodeKeys)
    /\ Len(df.rows) > 0
    /\ Len(indicator_cols_of(df)) > 0

\* ------------------------------------------------- claims on the wrapper
\* the words of the text, none for a missing text
WordsOfText == IF text = NoText THEN <<>> ELSE split(text)

\* the words of the lines, line after line
RECURSIVE words_of_lines(_)
words_of_lines(ls) ==
    IF Len(ls) = 0 THEN <<>> ELSE split(Head(ls)) \o words_of_lines(Tail(ls))

\* C21: for every text and every max_chars, when no word of the text is
\* longer than max_chars, every line returned by split_text_to_lines is
\* non-empty and at most max_chars characters long, a first word of
\* exactly max_chars characters included.
C21_LinesWithinWidth ==
    (tpc = "v3"
       /\ \A k \in 1..Len(WordsOfText) : Len(WordsOfText[k]) <= max_chars) =>
        \A k \in 1..Len(lines.val) :
            /\ Len(lines.val[k]) > 0
            /\ Len(lines.val[k]) <= max_chars

\* C21 witness: a text whose first word fills the width and which wraps
\* into several lines, one of them of two words
C21_Witness ==
    /\ tpc = "v3"
    /\ Len(WordsOfText) >= 3
    /\ Len(WordsOfText[1]) = max_chars
    /\ \A k \in 1..Len(WordsOfText) : Len(WordsOfText[k]) <= max_chars
    /\ Len(lines.val) >= 2
    /\ lines.val[1] = WordsOfText[1]
    /\ \E k \in 1..Len(lines.val) : Len(split(lines.val[k])) = 2

\* C25: split_text_to_lines loses, duplicates and reorders no word: for
\* every text and max_chars the words of the returned lines, taken line
\* after line, are exactly the words of the text in their order, and an
\* empty or missing text gives no lines.
C25_WordsKept ==
    tpc = "v3" =>
        /\ lines.exc = "none"
        /\ words_of_lines(lines.val) = WordsOfText
        /\ (text = NoText \/ Len(text) = 0) => lines.val = <<>>

\* C25 witness: three different words between repeated blanks, wrapped
\* into two lines
C25_Witness ==
    /\ tpc = "v3"
    /\ text # NoText
    /\ Len(WordsOfText) = 3
    /\ WordsOfText[1] # WordsOfText[2]
    /\ Len(text) > Len(strip_chars(text))
    /\ Len(lines.val) = 2
    /\ words_of_lines(lines.val) = WordsOfText

\* ------------------------------------------- claims on the order of labels
\* the place of a category in the order Low < Medium < High
Rank(cat) ==
    CASE cat = "Low" -> 1
      [] cat = "Medium" -> 2
      [] cat = "High" -> 3
      [] OTHER -> 0

\* C22: classification is monotone in the value: in the labels that
\* classify_three returns for a column, two non-null positions i and j with
\* value(i) <= value(j) carry categories of Low, Medium, High with the
\* category at i not above the one at j, so equal values carry equal
\* categories, on the tercile path and on the equal-width fallback alike.
C22_MonotoneInValue ==
    (cpc = "v3" /\ cats.exc = "none") =>
        \A j, k \in 1..Len(series) :
            (Coerced[j] # NaN /\ Coerced[k] # NaN
               /\ Coerced[j] <= Coerced[k]) =>
                /\ Rank(cats.val[j]) >= 1
                /\ Rank(cats.val[j]) <= Rank(cats.val[k])

\* C22 witness: the fallback has labelled a column with a repeated value
\* and a larger value in a higher category
C22_Witness ==
    /\ cpc = "v3"
    /\ cats.exc = "none"
    /\ TercilesFail
    /\ \E j, k \in 1..Len(series) :
          /\ j # k
          /\ Coerced[j] # NaN
          /\ Coerced[j] = Coerced[k]
          /\ cats.val[j] = cats.val[k]
    /\ \E j, k \in 1..Len(series) :
          /\ Coerced[j] # NaN
          /\ Coerced[j] < Coerced[k]
          /\ Rank(cats.val[j]) < Rank(cats.val[k])

\* ---------------------------------------------------- claims on the map
\* the rows of the scenario table of the country code
TableRowsOf(code) ==
    {r \in 1..nrows(scenario_df) : scenario_df.ISO3[r] = code}

\* C23: for the scenario and the indicator of the map, every country that
\* is in the world layer and in the scenario table has the same Category
\* on the map as in its report: the label of its row in the column
\* classified after the left join onto the world layer is the label of its
\* row in the classified column of the scenario table.  Stated for the
\* tables in which every row carries a country code.
C23_MapAgreesWithReport ==
    (apc = "ready" /\ map_built
       /\ \A r \in 1..Len(raw_df.rows) : raw_df.rows[r][1] # NA) =>
        /\ \A k \in 1..Len(map_df.ISO3) :
              \A r \in TableRowsOf(map_df.ISO3[k]) :
                  /\ class_of(scenario_df, indicator_choice).exc = "none"
                  /\ class_of(scenario_df, indicator_choice).val[r] =
                         map_df.Category[k]
        /\ \A e \in 1..Len(DetailEntries) :
              \A k \in 1..Len(map_df.ISO3) :
                  (DetailEntries[e].ind = indicator_choice
                     /\ map_df.ISO3[k] = country_code) =>
                      DetailEntries[e].cat = map_df.Category[k]

\* the requested indicators whose cell in the row of the country holds
\* text that is no number
TextCells ==
    {k \in 1..Len(requested) :
        /\ requested[k] \in TableCols
        /\ Len(rows_of(scenario_df, country_code)) > 0
        /\ column(scenario_df, requested[k])
               [rows_of(scenario_df, country_code)[1]] = BadText}

\* C24: in every report entry the value and the category agree on
\* missingness: the detail page of each requested indicator shows N/A as
\* the value exactly when its category is NoData, and a cell that is no
\* number is shown as N/A with the category NoData.  Stated for the calls
\* on a country whose cell of a requested indicator is text that is no
\* number, in a table whose requested columns hold at least two distinct
\* numbers.
C24_ValueAndCategoryAgree ==
    (Terminal /\ caller = "call" /\ Classifiable(requested)
       /\ TextCells # {}) =>
        /\ pc = "saved"
        /\ Len(DetailEntries) = Len(requested)
        /\ \A k \in 1..Len(requested) :
              /\ DetailEntries[k].value = NotAvailable
                    <=> DetailEntries[k].cat = "NoData"
              /\ k \in TextCells =>
                    DetailEntries[k].value = NotAvailable

====
